---- MODULE Spec2Model ----
(***************************************************************************)
(* The crawl of IA-Iso-Spider.py (main and its helpers): seeding, the     *)
(* frontier loop with its collection and identifier branches, the yield   *)
(* statistics and the reprioritization of the frontier.                    *)
(*                                                                         *)
(* The remote service is the environment. Every HTTP request draws its    *)
(* answer from a small set: a failure, a usable body, or a body of an      *)
(* unexpected shape. Priorities are floats in the source; here they are    *)
(* exact multiples of 1/Scale, Scale chosen so that every division the     *)
(* crawl performs within the bounds is exact.                              *)
(***************************************************************************)
EXTENDS Integers, Sequences, FiniteSets, TLC

\* ------------------------------------------------------------------ bounds
\* The largest --max-visits of a run, and the most documents one search page holds.
MaxVisitsCap == 3
MaxDocs == 2

\* The identifiers of the remote service: one name space for collections and items.
Ids == {"A", "B"}

\* ------------------------------------------------------------- arithmetic
Max(a, b) == IF a >= b THEN a ELSE b

RECURSIVE Pow(_, _)
Pow(b, e) == IF e = 0 THEN 1 ELSE b * Pow(b, e - 1)

RECURSIVE Fact(_)
Fact(n) == IF n <= 1 THEN 1 ELSE n * Fact(n - 1)

\* One unit of priority is 1/Scale. 0.5 needs a factor 2, a ratio isos/items a
\* factor items (items <= |Ids|), each decay by 0.95 = 19/20 a factor 20, and a
\* queued node decays at most once per finished collection visit.
Scale == 2 * Fact(Cardinality(Ids)) * Pow(20, MaxVisitsCap + 1)

SeqsUpTo(S, n) == UNION {[1..k -> S] : k \in 0..n}

\* ----------------------------------------------------------- remote values
\* fetch_metadata returned None, or a record that is empty.
None == "None"

\* File names of a record's "files" list, and the suffix test of extract_iso_entries.
FileNames == {"f.iso", "G.IMG", "n.txt"}

LowerName(name) ==
    CASE name = "G.IMG" -> "g.img"
      [] OTHER -> name

Suffix4(name) ==
    CASE name = "f.iso" -> ".iso"
      [] name = "g.img" -> ".img"
      [] name = "n.txt" -> ".txt"
      [] OTHER -> ""

\* str.strip() on the identifiers a search document may carry.
RawDocIds == Ids \cup {"", " A"}

Strip(s) ==
    CASE s = " A" -> "A"
      [] OTHER -> s

\* A record's "files" list (the names of its entries).
FileLists == SeqsUpTo(FileNames, 2)

\* A record's metadata.collection field: absent, one string, or a list of strings.
CollectionFields ==
    {[t |-> "absent", v |-> <<>>]}
    \cup {[t |-> "str", v |-> <<s>>] : s \in Ids \cup {""}}
    \cup {[t |-> "list", v |-> l] : l \in SeqsUpTo(Ids \cup {""}, Cardinality(Ids))}

\* The parsed bodies fetch_metadata can return for an item of the crawl.
MetaRecords == [files : FileLists, collection : CollectionFields]

\* The mediatype values classify_seed can read from a seed's record.
MediaTypes == {"collection", "Collection", "software", ""}

Lower(s) ==
    CASE s = "Collection" -> "collection"
      [] OTHER -> s

\* response.numFound of the first search page of a collection: with two rows per
\* page, one page or three.
NumFounds == {0, 5}

\* ---------------------------------------------------------------- frontier
Collection == "collection"

Identifier == "identifier"

FrontierItem(priority, kind, value, depth, stats_key) ==
    [priority |-> priority, kind |-> kind, value |-> value, depth |-> depth,
     stats_key |-> stats_key]

NoNode == FrontierItem(0, "none", "", 0, "")

\* A sort that puts x before the queued elements of its priority.
RECURSIVE InsertStable_BeforeTies(_, _)
InsertStable_BeforeTies(s, x) ==
    IF s = <<>> THEN <<x>>
    ELSE IF Head(s).priority > x.priority
         THEN <<Head(s)>> \o InsertStable_BeforeTies(Tail(s), x)
         ELSE <<x>> \o s

\* list.sort(key=priority, reverse=True) is stable: x goes behind every queued
\* element whose priority is not lower.
RECURSIVE InsertStable(_, _)
InsertStable(s, x) ==
    IF s = <<>> THEN <<x>>
    ELSE IF Head(s).priority >= x.priority
         THEN <<Head(s)>> \o InsertStable(Tail(s), x)
         ELSE <<x>> \o s

RECURSIVE SortDesc(_)
SortDesc(s) ==
    IF s = <<>> THEN <<>>
    ELSE InsertStable(SortDesc(SubSeq(s, 1, Len(s) - 1)), s[Len(s)])

\* push_frontier without its sort.
push_frontier_unsorted(f, item) == Append(f, item)

\* frontier.append(item), then frontier.sort by descending priority.
push_frontier(f, item) == SortDesc(Append(f, item))

\* frontier.pop() in place of frontier.pop(0).
pop_frontier_last(f) ==
    IF f = <<>> THEN [node |-> NoNode, rest |-> f]
    ELSE [node |-> f[Len(f)], rest |-> SubSeq(f, 1, Len(f) - 1)]

\* frontier[0] in place of frontier.pop(0): the node stays queued.
pop_frontier_peek(f) ==
    IF f = <<>> THEN [node |-> NoNode, rest |-> f]
    ELSE [node |-> Head(f), rest |-> f]

\* None on an empty list, else frontier.pop(0).
pop_frontier(f) ==
    IF f = <<>> THEN [node |-> NoNode, rest |-> f]
    ELSE [node |-> Head(f), rest |-> Tail(f)]

\* -------------------------------------------------------- yield statistics
NoStats == <<>>

HasStats(stats, c) == c \in DOMAIN stats

\* coll_stats[c] of the defaultdict: the entry, created with zero counters on first use.
Touch(stats, c) ==
    IF HasStats(stats, c) THEN stats ELSE stats @@ (c :> [items |-> 0, isos |-> 0])

AddItems(stats, c, n) ==
    [Touch(stats, c) EXCEPT ![c].items = @ + n]

AddIsos(stats, c, n) ==
    [Touch(stats, c) EXCEPT ![c].isos = @ + n]

\* stats and stats["items"] > 0
Observed(stats, c) == HasStats(stats, c) /\ stats[c].items > 0

\* The score without the 0.5 baseline.
DiscoveryRatio_NoBaseline(stats, c) ==
    IF Observed(stats, c)
    THEN (stats[c].isos * Scale) \div Max(1, stats[c].items)
    ELSE 0

\* The score of a discovered collection: isos/items if it has items, else 0.5.
DiscoveryRatio(stats, c) ==
    IF Observed(stats, c)
    THEN (stats[c].isos * Scale) \div Max(1, stats[c].items)
    ELSE Scale \div 2

\* A re-weighing that raises the entries without observed items by 5 %.
Reweigh_Grows(fi, stats) ==
    IF fi.kind = Collection
    THEN IF Observed(stats, fi.stats_key)
         THEN [fi EXCEPT !.priority =
                  Scale + (stats[fi.stats_key].isos * Scale)
                              \div Max(1, stats[fi.stats_key].items)]
         ELSE [fi EXCEPT !.priority = Max((fi.priority * 21) \div 20, Scale \div 10)]
    ELSE fi

\* The re-weighing with a decay that has no floor.
Reweigh_NoFloor(fi, stats) ==
    IF fi.kind = Collection
    THEN IF Observed(stats, fi.stats_key)
         THEN [fi EXCEPT !.priority =
                  Scale + (stats[fi.stats_key].isos * Scale)
                              \div Max(1, stats[fi.stats_key].items)]
         ELSE [fi EXCEPT !.priority = (fi.priority * 19) \div 20]
    ELSE fi

\* The re-weighing of one queued entry after a collection visit.
Reweigh(fi, stats) ==
    IF fi.kind = Collection
    THEN IF Observed(stats, fi.stats_key)
         THEN [fi EXCEPT !.priority =
                  Scale + (stats[fi.stats_key].isos * Scale)
                              \div Max(1, stats[fi.stats_key].items)]
         ELSE [fi EXCEPT !.priority = Max((fi.priority * 19) \div 20, Scale \div 10)]
    ELSE fi

\* The re-weighing without the sort that follows it.
Reprioritize_Unsorted(f, stats) ==
    [i \in 1..Len(f) |-> Reweigh(f[i], stats)]

\* A re-weighing that drops the collections without observed items.
Reprioritize_Discards(f, stats) ==
    SortDesc(SelectSeq([i \in 1..Len(f) |-> Reweigh(f[i], stats)],
                       LAMBDA fi : fi.kind # Collection \/ Observed(stats, fi.stats_key)))

\* The re-weighing of every queued entry, then frontier.sort.
Reprioritize(f, stats) ==
    SortDesc([i \in 1..Len(f) |-> Reweigh(f[i], stats)])

\* ---------------------------------------------------------------- resolver
RECURSIVE extract_iso_entries(_, _)
extract_iso_entries(identifier, files) ==
    IF files = <<>> THEN <<>>
    ELSE LET name == Head(files)
             rest == extract_iso_entries(identifier, Tail(files))
         IN IF name = "" THEN rest
            ELSE IF Suffix4(LowerName(name)) \in {".iso", ".img"}
                 THEN <<<<identifier, name>>>> \o rest
                 ELSE rest

related_collections_from_meta(meta) ==
    LET col == meta.collection
    IN CASE col.t = "list" -> {col.v[i] : i \in 1..Len(col.v)} \ {""}
         [] col.t = "str" -> {col.v[1]} \ {""}
         [] OTHER -> {}

\* classify_seed that compares the mediatype as it is written.
classify_seed_CaseSensitive(mediatype) ==
    IF mediatype = None THEN Collection
    ELSE IF mediatype = "collection" THEN Collection ELSE Identifier

\* classify_seed on the outcome of the seed's fetch: None, or the record's mediatype.
classify_seed(mediatype) ==
    IF mediatype = None THEN Collection
    ELSE IF Lower(mediatype) = "collection" THEN Collection ELSE Identifier

\* The orders in which a Python set of strings can be iterated.
Orderings(S) ==
    {o \in [1..Cardinality(S) -> S] : \A i, j \in 1..Cardinality(S) : o[i] = o[j] => i = j}

\* The emission without the membership test.
AlreadyEmitted_Never(key, seen) == FALSE

\* if key in seen_files: continue
AlreadyEmitted(key, seen) == key \in seen

\* The keys written for one record, in order: each key not yet in seen_files.
RECURSIVE NewKeys(_, _)
NewKeys(entries, seen) ==
    IF entries = <<>> THEN <<>>
    ELSE LET key == Head(entries)
         IN IF AlreadyEmitted(key, seen)
            THEN NewKeys(Tail(entries), seen)
            ELSE <<key>> \o NewKeys(Tail(entries), seen \cup {key})

Range(s) == {s[i] : i \in 1..Len(s)}

Occurrences(s, x) == Cardinality({i \in 1..Len(s) : s[i] = x})

\* The pushes without the test of seen_collections.
RECURSIVE PushRelated_Unchecked(_, _, _, _, _)
PushRelated_Unchecked(f, order, seen, stats, depth) ==
    IF order = <<>> THEN f
    ELSE LET rc == Head(order)
         IN PushRelated_Unchecked(
                push_frontier(f, FrontierItem(DiscoveryRatio(stats, rc), Collection, rc,
                                              depth, rc)),
                Tail(order), seen, stats, depth)

\* The pushes of one processed item: every related collection not yet visited.
RECURSIVE PushRelated(_, _, _, _, _)
PushRelated(f, order, seen, stats, depth) ==
    IF order = <<>> THEN f
    ELSE LET rc == Head(order)
             g == IF rc \notin seen
                  THEN push_frontier(f, FrontierItem(DiscoveryRatio(stats, rc),
                                                     Collection, rc, depth, rc))
                  ELSE f
         IN PushRelated(g, Tail(order), seen, stats, depth)

\* The page count rounded down.
TotalPages_Floor(num_found, rows) == Max(1, num_found \div rows)

\* max(1, (num_found + rows - 1) // rows)
TotalPages(num_found, rows) == Max(1, (num_found + rows - 1) \div rows)

\* ------------------------------------------------------------------- state
VARIABLES
    args,                \* the parsed options: seeds, max_visits, max_depth, rows, stop_on_dry_spell
    pc,                  \* the position of main
    seed_i,              \* index of the next seed to classify
    frontier,            \* the list of FrontierItem, highest priority first
    seen_collections, seen_identifiers, seen_files,
    coll_stats,          \* collection id -> [items, isos], entries created on first use
    total_iso, visits, dry_streak,
    node,                \* the node popped last
    page, total_pages, num_found,
    doc_i,               \* number of documents of the current page already iterated
    identifier,          \* the item being processed inline
    new_isos_from_coll,
    \* history of the run, read by no action
    pops,                \* number of pop_frontier calls that returned a node
    coll_visits,         \* id -> times visited as a collection
    item_visits,         \* id -> times processed as an item (inline or Identifier node)
    written,             \* (identifier, file name) -> records written to out_fp
    meta_requests,       \* id -> metadata requests issued inside the loop
    search_requests,     \* id -> search requests for page 1 of the collection
    search_pages,        \* page numbers requested for the collection being visited
    page_failed,         \* a page fetch of the collection being visited failed
    spacing,             \* whether a delay separated every two consecutive requests so far
    \* the shared status and the heartbeat thread
    running,             \* status["running"]
    hb_pc,               \* the position of _heartbeat_worker
    hb_last,             \* what the worker's last tick did
    \* one call of session.get, through wrapped, the adapter's retries and its caller
    http_pc,             \* the position of the call
    caller,              \* fetch_metadata or adv_search_collection
    retries,             \* build_session's retries
    status,              \* build_session's status argument: None, a mapping, or another object
    last_http,           \* status["last_http"], when status is a mapping
    left,                \* the retry budget that is left (Retry.total)
    answers,             \* the answers of the server to the attempts of the call, in order
    outcome,             \* what wrapped returned or raised
    parsable,            \* whether the body of the response parses as JSON
    result,              \* what the caller returned or raised
    \* one run of main of Download-From-JSON-v2.py
    dl_pc,               \* the position of the run
    dl_args,             \* --resume and --dry-run
    items,               \* the items of the input list, after filtering
    idx,                 \* index of the item the loop is at
    dest_files,          \* file name -> size of the file in the output directory, or Absent
    headers, mode, downloaded,   \* the locals of download_file
    success, skipped, failed

main_vars ==
    <<args, pc, seed_i, frontier, seen_collections, seen_identifiers, seen_files,
      coll_stats, total_iso, visits, dry_streak, node, page, total_pages, num_found,
      doc_i, identifier, new_isos_from_coll, pops, coll_visits, item_visits, written,
      meta_requests, search_requests, search_pages, page_failed>>

hb_vars == <<running, hb_pc, hb_last>>

http_vars ==
    <<http_pc, caller, retries, status, last_http, left, answers, outcome, parsable, result>>

dl_vars ==
    <<dl_pc, dl_args, items, idx, dest_files, headers, mode, downloaded, success,
      skipped, failed>>

vars == <<main_vars, spacing, hb_vars, http_vars, dl_vars>>

crawl_vars ==
    <<frontier, seen_collections, seen_identifiers, seen_files, coll_stats, total_iso,
      visits, dry_streak>>

visit_vars == <<node, page, total_pages, num_found, doc_i, identifier, new_isos_from_coll>>

history_vars ==
    <<pops, coll_visits, item_visits, written, meta_requests, search_requests,
      search_pages, page_failed>>

AllKeys == Ids \X FileNames

\* A run pushes one node per seed and at most one node per processed item and
\* related collection, and pops no more than it pushed: the count of pops stays
\* below PopsCap, where it would stop counting.
PopsCap == 2 + Cardinality(Ids) * Cardinality(Ids) + 1

CountPop(n) == IF n < PopsCap THEN n + 1 ELSE n

\* --seeds: up to two seeds; the first is "A" (the names are interchangeable).
SeedLists == {<<>>, <<"A">>, <<"A", "A">>, <<"A", "B">>}

Options ==
    [seeds : SeedLists, max_visits : {-1, 1, MaxVisitsCap}, max_depth : {1},
     rows : {0, 2}, stop_on_dry_spell : {2}]

\* main before seeding: empty sets, statistics and frontier, counters at 0.
InitMain ==
    /\ pc = "Seeding"
    /\ seed_i = 1
    /\ frontier = <<>>
    /\ seen_collections = {}
    /\ seen_identifiers = {}
    /\ seen_files = {}
    /\ coll_stats = NoStats
    /\ total_iso = 0
    /\ visits = 0
    /\ dry_streak = 0
    /\ node = NoNode
    /\ page = 0
    /\ total_pages = 0
    /\ num_found = 0
    /\ doc_i = 0
    /\ identifier = ""
    /\ new_isos_from_coll = 0
    /\ pops = 0
    /\ coll_visits = [i \in Ids |-> 0]
    /\ item_visits = [i \in Ids |-> 0]
    /\ written = [k \in AllKeys |-> 0]
    /\ meta_requests = [i \in Ids |-> 0]
    /\ search_requests = [i \in Ids |-> 0]
    /\ search_pages = <<>>
    /\ page_failed = FALSE
    /\ spacing = "none"
    /\ running = TRUE
    /\ hb_pc = "NotStarted"
    /\ hb_last = "none"

\* ------------------------------------------------- downloader, not running
DlNames == {"a.iso"}

\* The size of a file that does not exist.
Absent == -1

\* headers = {}: no Range header.
NoHeaders == [unit |-> None, first |-> 0]

\* The downloader before its run: the state of its variables during a crawl.
DlIdle ==
    /\ dl_pc = "Idle"
    /\ dl_args = [resume |-> FALSE, dry_run |-> FALSE]
    /\ items = <<>>
    /\ idx = 1
    /\ dest_files = [n \in DlNames |-> Absent]
    /\ headers = NoHeaders
    /\ mode = "wb"
    /\ downloaded = 0
    /\ success = 0
    /\ skipped = 0
    /\ failed = 0

\* ------------------------------------------------------------- HTTP client
\* The largest retry count a session is built with.
MaxRetries == 3

\* status_forcelist of the session's Retry.
Forcelist == {"429", "500", "502", "503", "504"}

ConnectionError == "ConnectionError"

\* What one attempt of a GET can end in: a status of the server, or a failure of
\* the connection (refused, reset, timed out).
ServerAnswers == {"200", "404", "429", "503", ConnectionError}

\* The shapes of build_session's status argument.
StatusShapes == {None, "dict", "other"}

\* status["last_http"]: no entry (or a falsy one), an object that is no mapping,
\* or the mapping written by wrapped.
LastHttp(shape, code, error, t_done) ==
    [shape |-> shape, status |-> code, error |-> error, t_done |-> t_done]

NoLastHttp == LastHttp("absent", None, None, FALSE)

OtherLastHttp == LastHttp("other", None, None, FALSE)

\* The entry wrapped writes before the request is sent.
StartedLastHttp == LastHttp("dict", None, None, FALSE)

Response(code) == [kind |-> "response", v |-> code]

Raise(error) == [kind |-> "raise", v |-> error]

Value(v) == [kind |-> "value", v |-> v]

NoOutcome == [kind |-> "none", v |-> None]

\* A call that is not under way: the state of the call variables during a crawl.
HttpIdle ==
    /\ http_pc = "Idle"
    /\ caller = "fetch_metadata"
    /\ retries = 0
    /\ status = "dict"
    /\ last_http = NoLastHttp
    /\ left = 0
    /\ answers = <<>>
    /\ outcome = NoOutcome
    /\ parsable = FALSE
    /\ result = NoOutcome

\* One GET of a session built with any retry count and any status argument, by
\* either caller; main has not started.
HttpInit ==
    /\ args = [seeds |-> <<>>, max_visits |-> -1, max_depth |-> 1, rows |-> 2,
               stop_on_dry_spell |-> 2]
    /\ InitMain
    /\ DlIdle
    /\ http_pc = "Call"
    /\ caller \in {"fetch_metadata", "adv_search_collection"}
    /\ retries \in 0..MaxRetries
    /\ status \in StatusShapes
    /\ last_http \in IF status = "dict"
                     THEN {NoLastHttp, OtherLastHttp, LastHttp("dict", "404", None, TRUE)}
                     ELSE {NoLastHttp}
    /\ left = retries
    /\ answers = <<>>
    /\ outcome = NoOutcome
    /\ parsable = FALSE
    /\ result = NoOutcome

\* wrapped, before the request: status.setdefault, then the new last_http entry.
WrappedBegin ==
    /\ http_pc = "Call"
    /\ status # "other"
    /\ last_http' = IF status = "dict" THEN StartedLastHttp ELSE last_http
    /\ http_pc' = "Sending"
    /\ UNCHANGED <<main_vars, dl_vars, spacing, hb_vars, caller, retries, status, left, answers,
                   outcome, parsable, result>>

\* A status that is not None and has no setdefault: the call raises before any
\* request is sent.
WrappedBeginRaises ==
    /\ http_pc = "Call"
    /\ status = "other"
    /\ outcome' = Raise("AttributeError")
    /\ http_pc' = "Caller"
    /\ UNCHANGED <<main_vars, dl_vars, spacing, hb_vars, caller, retries, status, last_http, left,
                   answers, parsable, result>>

\* The last_http entry is rewritten by another holder of the status mapping
\* while the request is in flight.
LastHttpReplaced ==
    /\ http_pc = "Sending"
    /\ status = "dict"
    /\ last_http = StartedLastHttp
    /\ last_http' \in {NoLastHttp, OtherLastHttp}
    /\ UNCHANGED <<main_vars, dl_vars, spacing, hb_vars, http_pc, caller, retries, status, left,
                   answers, outcome, parsable, result>>

\* A Retry that sends again after every answer that is not a 200.
Retryable_NotOk(answer) == answer # "200"

\* Retry.is_retry for a GET: a status of the forcelist; a failed connection is
\* retried as well.
Retryable(answer) == answer = ConnectionError \/ answer \in Forcelist

\* Retry.increment with one unit less than it takes: the budget counts attempts.
Exhausted_CountsAttempts(total) == total - 1 <= 0

\* Retry.increment, then is_exhausted: the budget left after this failure is negative.
Exhausted(total) == total - 1 < 0

\* raise_on_status of a Retry that raises when the budget ends on a status.
RaiseOnStatus_Raises == TRUE

\* raise_on_status=False
RaiseOnStatus == FALSE

\* An attempt fails and the budget allows another: the adapter sends again.
AttemptRetried ==
    /\ http_pc = "Sending"
    /\ \E answer \in ServerAnswers :
         /\ Retryable(answer)
         /\ ~Exhausted(left)
         /\ answers' = Append(answers, answer)
    /\ left' = left - 1
    /\ UNCHANGED <<main_vars, dl_vars, spacing, hb_vars, http_pc, caller, retries, status,
                   last_http, outcome, parsable, result>>

\* The attempt's response goes back to wrapped: a status outside the forcelist,
\* or a status of the forcelist when the budget is used up.
AttemptReturns ==
    /\ http_pc = "Sending"
    /\ \E answer \in ServerAnswers \ {ConnectionError} :
         /\ answer \in Forcelist => (Exhausted(left) /\ ~RaiseOnStatus)
         /\ answers' = Append(answers, answer)
    /\ http_pc' = "Returned"
    /\ UNCHANGED <<main_vars, dl_vars, spacing, hb_vars, caller, retries, status, last_http, left,
                   outcome, parsable, result>>

\* The budget is used up on a failed connection (or on a status, were
\* raise_on_status set): the request raises.
AttemptRaises ==
    /\ http_pc = "Sending"
    /\ \E answer \in ServerAnswers :
         /\ Retryable(answer)
         /\ Exhausted(left)
         /\ answer \in Forcelist => RaiseOnStatus
         /\ answers' = Append(answers, answer)
    /\ http_pc' = "Raised"
    /\ UNCHANGED <<main_vars, dl_vars, spacing, hb_vars, caller, retries, status, last_http, left,
                   outcome, parsable, result>>

\* info = status.get("last_http", {}) or {}
Info == IF last_http.shape = "absent" THEN LastHttp("dict", None, None, FALSE) ELSE last_http

\* info.update raises when the entry is no mapping.
CanRecord == status = None \/ Info.shape = "dict"

Last(s) == s[Len(s)]

\* wrapped after a response: the entry gets t_done, status and rtt; the response
\* is returned.
WrappedReturns ==
    /\ http_pc = "Returned"
    /\ CanRecord
    /\ last_http' = IF status = "dict"
                    THEN [Info EXCEPT !.status = Last(answers), !.t_done = TRUE]
                    ELSE last_http
    /\ outcome' = Response(Last(answers))
    /\ http_pc' = "Caller"
    /\ UNCHANGED <<main_vars, dl_vars, spacing, hb_vars, caller, retries, status, left, answers,
                   parsable, result>>

\* wrapped after an exception of the request: the entry gets t_done, error and
\* rtt; the exception is raised again.
WrappedReraises ==
    /\ http_pc = "Raised"
    /\ CanRecord
    /\ last_http' = IF status = "dict"
                    THEN [Info EXCEPT !.error = ConnectionError, !.t_done = TRUE]
                    ELSE last_http
    /\ outcome' = Raise(ConnectionError)
    /\ http_pc' = "Caller"
    /\ UNCHANGED <<main_vars, dl_vars, spacing, hb_vars, caller, retries, status, left, answers,
                   parsable, result>>

\* The entry is no mapping: info.update raises AttributeError. After a response
\* it is raised inside the try, caught by the handler, and raised again by the
\* handler's own info.update; after an exception it replaces that exception.
WrappedRecordRaises ==
    /\ http_pc \in {"Returned", "Raised"}
    /\ ~CanRecord
    /\ outcome' = Raise("AttributeError")
    /\ http_pc' = "Caller"
    /\ UNCHANGED <<main_vars, dl_vars, spacing, hb_vars, caller, retries, status, last_http, left,
                   answers, parsable, result>>

\* fetch_metadata without its try block.
fetch_metadata_uncaught(out, parses) ==
    IF out.kind = "raise" THEN out
    ELSE IF out.v # "200" THEN Value(None)
    ELSE IF parses THEN Value("record") ELSE Raise("ValueError")

\* fetch_metadata: None for an exception, a status other than 200 or a body that
\* does not parse; else the parsed body.
fetch_metadata(out, parses) ==
    IF out.kind = "raise" THEN Value(None)
    ELSE IF out.v # "200" THEN Value(None)
    ELSE IF parses THEN Value("record") ELSE Value(None)

\* adv_search_collection: the request's exception, RuntimeError for a status
\* other than 200, the parser's error, or the parsed body.
adv_search_collection(out, parses) ==
    IF out.kind = "raise" THEN out
    ELSE IF out.v # "200" THEN Raise("RuntimeError")
    ELSE IF parses THEN Value("record") ELSE Raise("ValueError")

\* The caller of session.get takes what wrapped returned or raised.
CallerReturns ==
    /\ http_pc = "Caller"
    /\ \E parses \in BOOLEAN :
         /\ parsable' = parses
         /\ result' = IF caller = "fetch_metadata"
                      THEN fetch_metadata(outcome, parses)
                      ELSE adv_search_collection(outcome, parses)
    /\ http_pc' = "Done"
    /\ UNCHANGED <<main_vars, dl_vars, spacing, hb_vars, caller, retries, status, last_http, left,
                   answers, outcome>>

HttpNext ==
    \/ WrappedBegin
    \/ WrappedBeginRaises
    \/ LastHttpReplaced
    \/ AttemptRetried
    \/ AttemptReturns
    \/ AttemptRaises
    \/ WrappedReturns
    \/ WrappedReraises
    \/ WrappedRecordRaises
    \/ CallerReturns

HttpSpec == HttpInit /\ [][HttpNext]_vars

Init ==
    /\ args \in Options
    /\ InitMain
    /\ HttpIdle
    /\ DlIdle

\* The locals of a visit are dead once the loop continues: they are cleared, so
\* that states differing only in them are one state.
EndVisit ==
    /\ page' = 0
    /\ total_pages' = 0
    /\ num_found' = 0
    /\ doc_i' = 0
    /\ identifier' = ""
    /\ new_isos_from_coll' = 0
    /\ search_pages' = <<>>
    /\ page_failed' = FALSE

\* ------------------------------------------------------------ request pacing
\* spacing is "none" before the first request of the run, "spaced" while every
\* request but the first was preceded by time.sleep(args.sleep) since the request
\* before it, and "unspaced" once one was not.
\* One request of main; slept: a time.sleep(args.sleep) precedes it in the same step.
Request(slept) ==
    spacing' = IF spacing = "unspaced" THEN "unspaced"
               ELSE IF spacing = "none" \/ slept THEN "spaced" ELSE "unspaced"

\* start_heartbeat: the worker thread exists from here on, running is set.
start_heartbeat ==
    /\ running' = TRUE
    /\ hb_pc' = "Ready"
    /\ hb_last' = hb_last

\* ----------------------------------------------------------------- seeding
ClassifySeed ==
    /\ pc = "Seeding"
    /\ seed_i <= Len(args.seeds)
    /\ \E mediatype \in {None} \cup MediaTypes :
         LET s == args.seeds[seed_i]
             kind == classify_seed(mediatype)
         IN frontier' = push_frontier(frontier,
                FrontierItem(Scale, kind, s, 0, IF kind = Collection THEN s ELSE ""))
    /\ seed_i' = seed_i + 1
    /\ Request(FALSE)
    /\ UNCHANGED <<args, dl_vars, http_vars, hb_vars, pc, seen_collections, seen_identifiers, seen_files, coll_stats,
                   total_iso, visits, dry_streak, visit_vars, history_vars>>

\* A seed's record that is no mapping: classify_seed raises before the loop starts.
ClassifySeedRaises ==
    /\ pc = "Seeding"
    /\ seed_i <= Len(args.seeds)
    /\ pc' = "SeedingFailed"
    /\ Request(FALSE)
    /\ UNCHANGED <<args, dl_vars, http_vars, hb_vars, seed_i, crawl_vars, visit_vars, history_vars>>

StartLoop ==
    /\ pc = "Seeding"
    /\ seed_i > Len(args.seeds)
    /\ pc' = "Looping"
    /\ start_heartbeat
    /\ UNCHANGED <<args, dl_vars, http_vars, spacing, seed_i, crawl_vars, visit_vars, history_vars>>

\* -------------------------------------------------------------------- loop
\* The loop condition without the visit cap.
LoopCondition_NoCap == frontier # <<>>

\* while frontier and visits < args.max_visits
LoopCondition == frontier # <<>> /\ visits < args.max_visits

LoopExit ==
    /\ pc = "Looping"
    /\ ~LoopCondition
    /\ pc' = IF frontier = <<>> THEN "Exhausted" ELSE "LimitReached"
    /\ UNCHANGED <<args, dl_vars, http_vars, hb_vars, spacing, seed_i, crawl_vars, visit_vars, history_vars>>

\* The skip of a collection without the visited test.
SkipCollection_DepthOnly(n) == n.depth > args.max_depth

\* The skip of a collection without the depth test.
SkipCollection_SeenOnly(n) == n.value \in seen_collections

\* if coll in seen_collections: continue; if node.depth > args.max_depth: continue
SkipCollection(n) == n.value \in seen_collections \/ n.depth > args.max_depth

\* if ident in seen_identifiers: continue
SkipIdentifier(n) == n.value \in seen_identifiers

\* An item that is not marked when its processing begins.
MarkItem_Forgotten(seen, id) == seen

\* seen_identifiers.add, before the item's record is requested.
MarkItem(seen, id) == seen \cup {id}

\* A skip that marks the dropped collection as visited.
PopSkip_MarksVisited ==
    /\ pc = "Looping"
    /\ LoopCondition
    /\ LET popped == pop_frontier(frontier)
       IN /\ IF popped.node.kind = Collection
             THEN SkipCollection(popped.node)
             ELSE SkipIdentifier(popped.node)
          /\ node' = popped.node
          /\ frontier' = popped.rest
          /\ seen_collections' = IF popped.node.kind = Collection
                                  THEN seen_collections \cup {popped.node.value}
                                  ELSE seen_collections
    /\ pops' = CountPop(pops)
    /\ UNCHANGED <<args, dl_vars, http_vars, hb_vars, spacing, pc, seed_i, seen_identifiers, seen_files,
                   coll_stats, total_iso, visits, dry_streak, page, total_pages,
                   num_found, doc_i, identifier, new_isos_from_coll, coll_visits,
                   item_visits, written, meta_requests, search_requests, search_pages,
                   page_failed>>

\* A popped node that is dropped: a collection already visited or too deep, an
\* identifier already visited.
PopSkip ==
    /\ pc = "Looping"
    /\ LoopCondition
    /\ LET popped == pop_frontier(frontier)
       IN /\ IF popped.node.kind = Collection
             THEN SkipCollection(popped.node)
             ELSE SkipIdentifier(popped.node)
          /\ node' = popped.node
          /\ frontier' = popped.rest
    /\ pops' = CountPop(pops)
    /\ UNCHANGED <<args, dl_vars, http_vars, hb_vars, spacing, pc, seed_i, seen_collections, seen_identifiers, seen_files,
                   coll_stats, total_iso, visits, dry_streak, page, total_pages,
                   num_found, doc_i, identifier, new_isos_from_coll, coll_visits,
                   item_visits, written, meta_requests, search_requests, search_pages,
                   page_failed>>

PopVisitCollection ==
    /\ pc = "Looping"
    /\ LoopCondition
    /\ LET popped == pop_frontier(frontier)
       IN /\ popped.node.kind = Collection
          /\ ~SkipCollection(popped.node)
          /\ node' = popped.node
          /\ frontier' = popped.rest
          /\ seen_collections' = seen_collections \cup {popped.node.value}
          /\ coll_visits' = [coll_visits EXCEPT ![popped.node.value] = @ + 1]
    /\ visits' = visits + 1
    /\ pops' = CountPop(pops)
    /\ page' = 1
    /\ new_isos_from_coll' = 0
    /\ pc' = "SearchFirst"
    /\ UNCHANGED <<args, dl_vars, http_vars, hb_vars, spacing, seed_i, seen_identifiers, seen_files, coll_stats, total_iso,
                   dry_streak, total_pages, num_found, doc_i, identifier, item_visits,
                   written, meta_requests, search_requests, search_pages, page_failed>>

PopVisitIdentifier ==
    /\ pc = "Looping"
    /\ LoopCondition
    /\ LET popped == pop_frontier(frontier)
       IN /\ popped.node.kind = Identifier
          /\ ~SkipIdentifier(popped.node)
          /\ node' = popped.node
          /\ frontier' = popped.rest
          /\ seen_identifiers' = MarkItem(seen_identifiers, popped.node.value)
          /\ item_visits' = [item_visits EXCEPT ![popped.node.value] = @ + 1]
    /\ visits' = visits + 1
    /\ pops' = CountPop(pops)
    /\ pc' = "IdentFetch"
    /\ UNCHANGED <<args, dl_vars, http_vars, hb_vars, spacing, seed_i, seen_collections, seen_files, coll_stats, total_iso,
                   dry_streak, page, total_pages, num_found, doc_i, identifier,
                   new_isos_from_coll, coll_visits, written, meta_requests,
                   search_requests, search_pages, page_failed>>

\* ------------------------------------------------------ collection branch
\* adv_search_collection raises (status other than 200, connection error,
\* unparsable body): the collection is abandoned, the loop continues.
SearchFirstFails ==
    /\ pc = "SearchFirst"
    /\ search_requests' = [search_requests EXCEPT ![node.value] = @ + 1]
    /\ pc' = "Looping"
    /\ EndVisit
    /\ Request(FALSE)
    /\ UNCHANGED <<args, dl_vars, http_vars, hb_vars, seed_i, crawl_vars, node, pops, coll_visits, item_visits,
                   written, meta_requests>>

\* A parsed body of unexpected shape (no mapping, a numFound that is no number,
\* a document that is no mapping, an identifier or title that is no string): the
\* reads after the try block raise, and nothing catches them inside the loop.
SearchFirstMalformed ==
    /\ pc = "SearchFirst"
    /\ search_requests' = [search_requests EXCEPT ![node.value] = @ + 1]
    /\ search_pages' = Append(search_pages, page)
    /\ pc' = "Crashed"
    /\ Request(FALSE)
    /\ UNCHANGED <<args, dl_vars, http_vars, hb_vars, seed_i, crawl_vars, visit_vars, pops, coll_visits, item_visits,
                   written, meta_requests, page_failed>>

\* --rows 0: the first page was requested and read, and the page count at
\* line 399 divides by args.rows: ZeroDivisionError leaves the loop.
SearchFirstZeroRows ==
    /\ pc = "SearchFirst"
    /\ args.rows = 0
    /\ search_requests' = [search_requests EXCEPT ![node.value] = @ + 1]
    /\ search_pages' = Append(search_pages, page)
    /\ pc' = "OptionCrashed"
    /\ Request(FALSE)
    /\ UNCHANGED <<args, dl_vars, http_vars, hb_vars, seed_i, crawl_vars, visit_vars, pops,
                   coll_visits, item_visits, written, meta_requests, page_failed>>

SearchFirstOk ==
    /\ pc = "SearchFirst"
    /\ args.rows # 0
    /\ \E n \in NumFounds :
         /\ num_found' = n
         /\ total_pages' = TotalPages(n, args.rows)
    /\ doc_i' = 0
    /\ search_requests' = [search_requests EXCEPT ![node.value] = @ + 1]
    /\ search_pages' = Append(search_pages, page)
    /\ pc' = "Docs"
    /\ Request(FALSE)
    /\ UNCHANGED <<args, dl_vars, http_vars, hb_vars, seed_i, crawl_vars, node, page, identifier, new_isos_from_coll,
                   pops, coll_visits, item_visits, written, meta_requests, page_failed>>

\* A failed page that is passed over: the loop goes on with the page after it.
SearchPageFails_Continues ==
    /\ pc = "SearchPage"
    /\ search_pages' = Append(search_pages, page)
    /\ page_failed' = TRUE
    /\ IF page >= total_pages
       THEN pc' = "Finish" /\ page' = page
       ELSE pc' = "SearchPage" /\ page' = page + 1
    /\ Request(TRUE)
    /\ UNCHANGED <<args, dl_vars, http_vars, hb_vars, seed_i, crawl_vars, node,
                   total_pages, num_found, doc_i, identifier, new_isos_from_coll, pops,
                   coll_visits, item_visits, written, meta_requests, search_requests>>

\* for p in range(1, total_pages + 1), p > 1: the fetch of page p fails, break.
SearchPageFails ==
    /\ pc = "SearchPage"
    /\ search_pages' = Append(search_pages, page)
    /\ page_failed' = TRUE
    /\ pc' = "Finish"
    /\ Request(TRUE)
    /\ UNCHANGED <<args, dl_vars, http_vars, hb_vars, seed_i, crawl_vars, visit_vars, pops, coll_visits, item_visits,
                   written, meta_requests, search_requests>>

SearchPageMalformed ==
    /\ pc = "SearchPage"
    /\ search_pages' = Append(search_pages, page)
    /\ pc' = "Crashed"
    /\ Request(TRUE)
    /\ UNCHANGED <<args, dl_vars, http_vars, hb_vars, seed_i, crawl_vars, visit_vars, pops, coll_visits, item_visits,
                   written, meta_requests, search_requests, page_failed>>

SearchPageOk ==
    /\ pc = "SearchPage"
    /\ doc_i' = 0
    /\ search_pages' = Append(search_pages, page)
    /\ pc' = "Docs"
    /\ Request(TRUE)
    /\ UNCHANGED <<args, dl_vars, http_vars, hb_vars, seed_i, crawl_vars, node, page, total_pages, num_found,
                   identifier, new_isos_from_coll, pops, coll_visits, item_visits,
                   written, meta_requests, search_requests, page_failed>>

\* for doc in docs. The documents of the page are fixed by its response; the model
\* draws each when the loop reaches it, and a page holds at most MaxDocs.
\* A document without identifier, or one already visited, is passed over.
DocSkip ==
    /\ pc = "Docs"
    /\ doc_i < MaxDocs
    /\ \E doc \in RawDocIds :
         LET id == Strip(doc)
         IN id = "" \/ id \in seen_identifiers
    /\ doc_i' = doc_i + 1
    /\ UNCHANGED <<args, dl_vars, http_vars, hb_vars, spacing, pc, seed_i, crawl_vars, node, page, total_pages, num_found,
                   identifier, new_isos_from_coll, history_vars>>

\* An inline item that is counted as a visit.
DocBegin_CountsVisit ==
    /\ pc = "Docs"
    /\ doc_i < MaxDocs
    /\ \E doc \in RawDocIds :
         LET id == Strip(doc)
         IN /\ id # ""
            /\ id \notin seen_identifiers
            /\ seen_identifiers' = MarkItem(seen_identifiers, id)
            /\ coll_stats' = AddItems(coll_stats, node.value, 1)
            /\ identifier' = id
            /\ item_visits' = [item_visits EXCEPT ![id] = @ + 1]
    /\ doc_i' = doc_i + 1
    /\ visits' = visits + 1
    /\ pc' = "ItemFetch"
    /\ UNCHANGED <<args, dl_vars, http_vars, hb_vars, spacing, seed_i, frontier, seen_collections, seen_files, total_iso,
                   dry_streak, node, page, total_pages, num_found,
                   new_isos_from_coll, pops, coll_visits, written, meta_requests,
                   search_requests, search_pages, page_failed>>

\* A new item: marked visited and counted for the collection, then fetched.
DocBegin ==
    /\ pc = "Docs"
    /\ doc_i < MaxDocs
    /\ \E doc \in RawDocIds :
         LET id == Strip(doc)
         IN /\ id # ""
            /\ id \notin seen_identifiers
            /\ seen_identifiers' = MarkItem(seen_identifiers, id)
            /\ coll_stats' = AddItems(coll_stats, node.value, 1)
            /\ identifier' = id
            /\ item_visits' = [item_visits EXCEPT ![id] = @ + 1]
    /\ doc_i' = doc_i + 1
    /\ pc' = "ItemFetch"
    /\ UNCHANGED <<args, dl_vars, http_vars, hb_vars, spacing, seed_i, frontier, seen_collections, seen_files, total_iso,
                   visits, dry_streak, node, page, total_pages, num_found,
                   new_isos_from_coll, pops, coll_visits, written, meta_requests,
                   search_requests, search_pages, page_failed>>

\* p is the last value of range(1, total_pages + 1)
LastPage == page >= total_pages

\* The documents of page p are consumed: the next page, or the end of the traversal.
PageEnd ==
    /\ pc = "Docs"
    /\ IF LastPage
       THEN pc' = "Finish" /\ page' = page
       ELSE pc' = "SearchPage" /\ page' = page + 1
    /\ UNCHANGED <<args, dl_vars, http_vars, hb_vars, spacing, seed_i, crawl_vars, node, total_pages, num_found, doc_i,
                   identifier, new_isos_from_coll, history_vars>>

\* The effect on (identifier, file name) -> records written of writing keys.
Written(w, keys) == [k \in AllKeys |-> w[k] + Occurrences(keys, k)]

\* fetch_metadata returns None (any failure) or an empty record: next document.
ItemFetchNone ==
    /\ pc = "ItemFetch"
    /\ meta_requests' = [meta_requests EXCEPT ![identifier] = @ + 1]
    /\ identifier' = ""
    /\ pc' = "Docs"
    /\ Request(TRUE)
    /\ UNCHANGED <<args, dl_vars, http_vars, hb_vars, seed_i, crawl_vars, node, page, total_pages, num_found, doc_i,
                   new_isos_from_coll, pops, coll_visits, item_visits, written,
                   search_requests, search_pages, page_failed>>

\* A record that is no mapping (or whose files are no mappings): the extraction raises.
ItemFetchMalformed ==
    /\ pc = "ItemFetch"
    /\ meta_requests' = [meta_requests EXCEPT ![identifier] = @ + 1]
    /\ pc' = "Crashed"
    /\ Request(TRUE)
    /\ UNCHANGED <<args, dl_vars, http_vars, hb_vars, seed_i, crawl_vars, visit_vars, pops, coll_visits, item_visits,
                   written, search_requests, search_pages, page_failed>>

ItemFetchOk ==
    /\ pc = "ItemFetch"
    /\ \E meta \in MetaRecords :
         \E order \in Orderings(related_collections_from_meta(meta)) :
           LET keys == NewKeys(extract_iso_entries(identifier, meta.files), seen_files)
           IN /\ seen_files' = seen_files \cup Range(keys)
              /\ written' = Written(written, keys)
              /\ total_iso' = total_iso + Len(keys)
              /\ new_isos_from_coll' = new_isos_from_coll + Len(keys)
              /\ frontier' = PushRelated(frontier, order, seen_collections, coll_stats,
                                         node.depth + 1)
    /\ meta_requests' = [meta_requests EXCEPT ![identifier] = @ + 1]
    /\ identifier' = ""
    /\ pc' = "Docs"
    /\ Request(TRUE)
    /\ UNCHANGED <<args, dl_vars, http_vars, hb_vars, seed_i, seen_collections, seen_identifiers, coll_stats, visits,
                   dry_streak, node, page, total_pages, num_found, doc_i,
                   pops, coll_visits, item_visits, search_requests, search_pages,
                   page_failed>>

\* out_fp.write raises at the k-th new record of the item: its key is already in
\* seen_files, the record is not written, and the error leaves the loop.
ItemWriteFails ==
    /\ pc = "ItemFetch"
    /\ \E files \in FileLists :
         LET keys == NewKeys(extract_iso_entries(identifier, files), seen_files)
         IN \E k \in 1..Len(keys) :
              /\ seen_files' = seen_files \cup Range(SubSeq(keys, 1, k))
              /\ written' = Written(written, SubSeq(keys, 1, k - 1))
              /\ total_iso' = total_iso + k - 1
              /\ new_isos_from_coll' = new_isos_from_coll + k - 1
    /\ meta_requests' = [meta_requests EXCEPT ![identifier] = @ + 1]
    /\ pc' = "SinkFailed"
    /\ Request(TRUE)
    /\ UNCHANGED <<args, dl_vars, http_vars, hb_vars, seed_i, frontier, seen_collections, seen_identifiers,
                   coll_stats, visits, dry_streak, node, page, total_pages, num_found,
                   doc_i, identifier, pops, coll_visits, item_visits, search_requests,
                   search_pages, page_failed>>

\* A stop test that lets a streak equal to the threshold pass.
DryStreakReached_Exceeds(streak) == streak > args.stop_on_dry_spell

\* if dry_streak >= args.stop_on_dry_spell: break
DryStreakReached(streak) == streak >= args.stop_on_dry_spell

\* After the traversal: statistics, dry streak, re-weighing, dry-streak stop.
Finish ==
    /\ pc = "Finish"
    /\ LET stats == AddIsos(coll_stats, node.value, new_isos_from_coll)
           streak == IF new_isos_from_coll = 0 THEN dry_streak + 1 ELSE 0
       IN /\ coll_stats' = stats
          /\ dry_streak' = streak
          /\ frontier' = Reprioritize(frontier, stats)
          /\ pc' = IF DryStreakReached(streak) THEN "DryStreakStopped" ELSE "Looping"
    /\ EndVisit
    /\ UNCHANGED <<args, dl_vars, http_vars, hb_vars, spacing, seed_i, seen_collections, seen_identifiers, seen_files,
                   total_iso, visits, node, pops, coll_visits, item_visits, written,
                   meta_requests, search_requests>>

\* ------------------------------------------------------ identifier branch
\* An Identifier visit that counts the item and its files for a parent collection.
IdentifierStats_Attributed(stats, rel, n) ==
    IF rel = {} THEN stats
    ELSE LET c == CHOOSE x \in rel : TRUE
         IN AddIsos(AddItems(stats, c, 1), c, n)

\* An Identifier visit that counts the item for each of its parent collections.
RECURSIVE IdentifierStats_CountsParents(_, _, _)
IdentifierStats_CountsParents(stats, rel, n) ==
    IF rel = {} THEN stats
    ELSE LET c == CHOOSE x \in rel : TRUE
         IN IdentifierStats_CountsParents(AddItems(stats, c, 1), rel \ {c}, n)

\* coll_stats after an Identifier visit: no counter is attributed to any collection.
IdentifierStats(stats, rel, n) == stats

IdentFetchNone ==
    /\ pc = "IdentFetch"
    /\ meta_requests' = [meta_requests EXCEPT ![node.value] = @ + 1]
    /\ pc' = "Looping"
    /\ Request(TRUE)
    /\ UNCHANGED <<args, dl_vars, http_vars, hb_vars, seed_i, crawl_vars, visit_vars, pops, coll_visits, item_visits,
                   written, search_requests, search_pages, page_failed>>

IdentFetchMalformed ==
    /\ pc = "IdentFetch"
    /\ meta_requests' = [meta_requests EXCEPT ![node.value] = @ + 1]
    /\ pc' = "Crashed"
    /\ Request(TRUE)
    /\ UNCHANGED <<args, dl_vars, http_vars, hb_vars, seed_i, crawl_vars, visit_vars, pops, coll_visits, item_visits,
                   written, search_requests, search_pages, page_failed>>

\* An Identifier visit that updates the dry streak like a collection visit.
IdentFetchOk_UpdatesStreak ==
    /\ pc = "IdentFetch"
    /\ \E meta \in MetaRecords :
         \E order \in Orderings(related_collections_from_meta(meta)) :
           LET keys == NewKeys(extract_iso_entries(node.value, meta.files), seen_files)
           IN /\ seen_files' = seen_files \cup Range(keys)
              /\ written' = Written(written, keys)
              /\ total_iso' = total_iso + Len(keys)
              /\ frontier' = PushRelated(frontier, order, seen_collections, coll_stats,
                                         node.depth + 1)
              /\ coll_stats' = IdentifierStats(coll_stats, Range(order), Len(keys))
              /\ dry_streak' = IF Len(keys) = 0 THEN dry_streak + 1 ELSE 0
    /\ meta_requests' = [meta_requests EXCEPT ![node.value] = @ + 1]
    /\ pc' = IF DryStreakReached(dry_streak) THEN "DryStreakStopped" ELSE "Looping"
    /\ Request(TRUE)
    /\ UNCHANGED <<args, dl_vars, http_vars, hb_vars, seed_i, seen_collections, seen_identifiers, visits,
                   visit_vars, pops, coll_visits, item_visits, search_requests,
                   search_pages, page_failed>>

IdentFetchOk ==
    /\ pc = "IdentFetch"
    /\ \E meta \in MetaRecords :
         \E order \in Orderings(related_collections_from_meta(meta)) :
           LET keys == NewKeys(extract_iso_entries(node.value, meta.files), seen_files)
           IN /\ seen_files' = seen_files \cup Range(keys)
              /\ written' = Written(written, keys)
              /\ total_iso' = total_iso + Len(keys)
              /\ frontier' = PushRelated(frontier, order, seen_collections, coll_stats,
                                         node.depth + 1)
              /\ coll_stats' = IdentifierStats(coll_stats, Range(order), Len(keys))
    /\ meta_requests' = [meta_requests EXCEPT ![node.value] = @ + 1]
    /\ pc' = IF DryStreakReached(dry_streak) THEN "DryStreakStopped" ELSE "Looping"
    /\ Request(TRUE)
    /\ UNCHANGED <<args, dl_vars, http_vars, hb_vars, seed_i, seen_collections, seen_identifiers, visits, dry_streak,
                   visit_vars, pops, coll_visits, item_visits, search_requests,
                   search_pages, page_failed>>

IdentWriteFails ==
    /\ pc = "IdentFetch"
    /\ \E files \in FileLists :
         LET keys == NewKeys(extract_iso_entries(node.value, files), seen_files)
         IN \E k \in 1..Len(keys) :
              /\ seen_files' = seen_files \cup Range(SubSeq(keys, 1, k))
              /\ written' = Written(written, SubSeq(keys, 1, k - 1))
              /\ total_iso' = total_iso + k - 1
    /\ meta_requests' = [meta_requests EXCEPT ![node.value] = @ + 1]
    /\ pc' = "SinkFailed"
    /\ Request(TRUE)
    /\ UNCHANGED <<args, dl_vars, http_vars, hb_vars, seed_i, frontier, seen_collections, seen_identifiers,
                   coll_stats, visits, dry_streak, visit_vars, pops, coll_visits,
                   item_visits, search_requests, search_pages, page_failed>>

\* ------------------------------------------------------------ after the loop
\* The exits of the while loop by its condition or by the dry-streak break.
NormalExits == {"Exhausted", "LimitReached", "DryStreakStopped"}

\* The exits of the loop by an exception: only the finally clause runs, and the
\* exception ends main.
FatalExits == {"Crashed", "SinkFailed", "OptionCrashed"}

\* The exits after which main reaches status["running"] = False (line 543).
StopsHeartbeatAt == NormalExits

\* Stop heartbeat: status["running"] = False.
StopHeartbeat ==
    /\ pc \in StopsHeartbeatAt
    /\ running
    /\ running' = FALSE
    /\ UNCHANGED <<main_vars, dl_vars, spacing, hb_pc, hb_last, http_vars>>

\* --------------------------------------------------------------- heartbeat
\* What a tick can find in the status it reads: numbers as main writes them,
\* missing keys, None, or values of another type.
StatusValues == {"numbers", "missing", "None", "wrong type"}

\* Whether the tick raises: int(), float formatting and last_http.get fail on
\* values of another type; missing keys and None fall back to defaults.
TickRaises(values) == values = "wrong type"

\* A worker without the except clause around the tick.
AfterTick_Uncaught(raised) == IF raised THEN "Died" ELSE "Ready"

\* except Exception: pass, then time.sleep: the worker is ready for the next tick.
AfterTick(raised) == "Ready"

\* if not status.get("running", False): break
HeartbeatObserves ==
    /\ hb_pc = "Ready"
    /\ hb_pc' = IF running THEN "Reporting" ELSE "Exited"
    /\ UNCHANGED <<main_vars, dl_vars, spacing, running, hb_last, http_vars>>

\* A worker that clears the running flag when its tick fails.
HeartbeatReports_ClearsRunning ==
    /\ hb_pc = "Reporting"
    /\ \E values \in StatusValues :
         /\ hb_last' = IF TickRaises(values) THEN "swallowed" ELSE "logged"
         /\ hb_pc' = AfterTick(TickRaises(values))
         /\ running' = IF TickRaises(values) THEN FALSE ELSE running
    /\ UNCHANGED <<main_vars, dl_vars, spacing, http_vars>>

\* The rest of the tick: the summary line is logged, or an exception is
\* swallowed; then the sleep.
HeartbeatReports ==
    /\ hb_pc = "Reporting"
    /\ \E values \in StatusValues :
         /\ hb_last' = IF TickRaises(values) THEN "swallowed" ELSE "logged"
         /\ hb_pc' = AfterTick(TickRaises(values))
    /\ UNCHANGED <<main_vars, dl_vars, spacing, running, http_vars>>

HbNext ==
    \/ HeartbeatObserves
    \/ HeartbeatReports

\* ----------------------------------------------------------- specification
Next ==
    \/ ClassifySeed
    \/ ClassifySeedRaises
    \/ StartLoop
    \/ LoopExit
    \/ PopSkip
    \/ PopVisitCollection
    \/ PopVisitIdentifier
    \/ SearchFirstFails
    \/ SearchFirstMalformed
    \/ SearchFirstZeroRows
    \/ SearchFirstOk
    \/ SearchPageFails
    \/ SearchPageMalformed
    \/ SearchPageOk
    \/ DocSkip
    \/ DocBegin
    \/ PageEnd
    \/ ItemFetchNone
    \/ ItemFetchMalformed
    \/ ItemFetchOk
    \/ ItemWriteFails
    \/ Finish
    \/ IdentFetchNone
    \/ IdentFetchMalformed
    \/ IdentFetchOk
    \/ IdentWriteFails
    \/ StopHeartbeat

Spec == Init /\ [][Next]_vars

Terminal == NormalExits \cup FatalExits \cup {"SeedingFailed"}

\* The runs from the single seed A with the largest visit cap. The loop is
\* sequential code: a step that is enabled is eventually taken.
InitOneSeed == Init /\ args.seeds = <<"A">> /\ args.max_visits = MaxVisitsCap

FairSpec == InitOneSeed /\ [][Next]_vars /\ WF_vars(Next)

\* main and the heartbeat thread, interleaved in every order.
HbSpec == InitOneSeed /\ [][Next \/ HbNext]_vars

\* --------------------------------------------------------------- downloader
\* Download-From-JSON-v2.py: main walks the items of the input list and downloads
\* each file that the output directory does not hold yet.
MaxItems == 2
MaxBytes == 2

\* An item of the input list: file_name and download_url, either may be missing.
ItemRecords == [file_name : {None} \cup DlNames, download_url : {None, "url"}]

\* The answers to the GET of download_file: written to the file, raised by
\* raise_for_status or by session.get, or neither.
WrittenStatuses == {"200", "206"}
FailedAnswers == {"404", ConnectionError}
IgnoredStatuses == {"204"}

\* The output directory holds no file, an empty file, or a file of some bytes.
DlInit ==
    /\ args = [seeds |-> <<>>, max_visits |-> -1, max_depth |-> 1, rows |-> 2,
               stop_on_dry_spell |-> 2]
    /\ InitMain
    /\ HttpIdle
    /\ dl_pc = "Item"
    /\ dl_args \in [resume : BOOLEAN, dry_run : BOOLEAN]
    /\ items \in SeqsUpTo(ItemRecords, MaxItems)
    /\ idx = 1
    /\ dest_files \in [DlNames -> {Absent} \cup 0..MaxBytes]
    /\ headers = NoHeaders
    /\ mode = "wb"
    /\ downloaded = 0
    /\ success = 0
    /\ skipped = 0
    /\ failed = 0

\* not file_name or not url
MissingFields(iso) == iso.file_name = None \/ iso.download_url = None

\* os.path.exists(dest_path)
Exists(name) == dest_files[name] # Absent

\* download_file, before the request: the Range header and the open mode.
ResumeFrom(resume, name) ==
    IF resume /\ Exists(name) /\ dest_files[name] > 0 THEN dest_files[name] ELSE 0

RangeHeader(from) ==
    IF from > 0 THEN [unit |-> "bytes", first |-> from] ELSE NoHeaders

OpenMode(from) == IF from > 0 THEN "ab" ELSE "wb"

\* open(dest_path, mode) and the chunks written: "ab" keeps the bytes of the file.
Opened(name, n) ==
    [dest_files EXCEPT ![name] = IF mode = "ab" /\ Exists(name) THEN @ + n ELSE n]

NextItem ==
    /\ idx' = idx + 1
    /\ dl_pc' = "Item"
    /\ headers' = NoHeaders
    /\ mode' = "wb"
    /\ downloaded' = 0

DlMissingFields ==
    /\ dl_pc = "Item"
    /\ idx <= Len(items)
    /\ MissingFields(items[idx])
    /\ failed' = failed + 1
    /\ NextItem
    /\ UNCHANGED <<main_vars, spacing, hb_vars, http_vars, dl_args, items, dest_files,
                   success, skipped>>

\* The destination exists: the item is skipped, with or without --resume.
DlAlreadyExists ==
    /\ dl_pc = "Item"
    /\ idx <= Len(items)
    /\ ~MissingFields(items[idx])
    /\ Exists(items[idx].file_name)
    /\ skipped' = skipped + 1
    /\ NextItem
    /\ UNCHANGED <<main_vars, spacing, hb_vars, http_vars, dl_args, items, dest_files,
                   success, failed>>

DlDryRun ==
    /\ dl_pc = "Item"
    /\ idx <= Len(items)
    /\ ~MissingFields(items[idx])
    /\ ~Exists(items[idx].file_name)
    /\ dl_args.dry_run
    /\ skipped' = skipped + 1
    /\ NextItem
    /\ UNCHANGED <<main_vars, spacing, hb_vars, http_vars, dl_args, items, dest_files,
                   success, failed>>

\* download_file is called and sends its GET.
DlGet ==
    /\ dl_pc = "Item"
    /\ idx <= Len(items)
    /\ ~MissingFields(items[idx])
    /\ ~Exists(items[idx].file_name)
    /\ ~dl_args.dry_run
    /\ LET from == ResumeFrom(dl_args.resume, items[idx].file_name)
       IN /\ downloaded' = from
          /\ headers' = RangeHeader(from)
          /\ mode' = OpenMode(from)
    /\ dl_pc' = "Get"
    /\ UNCHANGED <<main_vars, spacing, hb_vars, http_vars, dl_args, items, idx, dest_files,
                   success, skipped, failed>>

\* 200 or 206: the body is written to the end.
DlWrites ==
    /\ dl_pc = "Get"
    /\ \E answer \in WrittenStatuses, n \in 0..MaxBytes :
         dest_files' = Opened(items[idx].file_name, n)
    /\ success' = success + 1
    /\ NextItem
    /\ UNCHANGED <<main_vars, spacing, hb_vars, http_vars, dl_args, items, skipped,
                   failed>>

\* 200 or 206, and the stream breaks after some chunks: the file keeps them.
DlStreamFails ==
    /\ dl_pc = "Get"
    /\ \E answer \in WrittenStatuses, n \in 0..MaxBytes :
         dest_files' = Opened(items[idx].file_name, n)
    /\ failed' = failed + 1
    /\ NextItem
    /\ UNCHANGED <<main_vars, spacing, hb_vars, http_vars, dl_args, items, success,
                   skipped>>

\* session.get or raise_for_status raises: no file is opened.
DlGetFails ==
    /\ dl_pc = "Get"
    /\ \E answer \in FailedAnswers : failed' = failed + 1
    /\ NextItem
    /\ UNCHANGED <<main_vars, spacing, hb_vars, http_vars, dl_args, items, dest_files,
                   success, skipped>>

\* Another status below 400: raise_for_status returns, nothing is written.
DlStatusIgnored ==
    /\ dl_pc = "Get"
    /\ \E answer \in IgnoredStatuses : success' = success + 1
    /\ NextItem
    /\ UNCHANGED <<main_vars, spacing, hb_vars, http_vars, dl_args, items, dest_files,
                   skipped, failed>>

DlCompleted ==
    /\ dl_pc = "Item"
    /\ idx > Len(items)
    /\ dl_pc' = "Completed"
    /\ UNCHANGED <<main_vars, spacing, hb_vars, http_vars, dl_args, items, idx, dest_files,
                   headers, mode, downloaded, success, skipped, failed>>

DlNext ==
    \/ DlMissingFields
    \/ DlAlreadyExists
    \/ DlDryRun
    \/ DlGet
    \/ DlWrites
    \/ DlStreamFails
    \/ DlGetFails
    \/ DlStatusIgnored
    \/ DlCompleted

DlSpec == DlInit /\ [][DlNext]_vars

\* ------------------------------------------------ re-weighing, state by state
\* The end of a collection's visit from any queue the crawl can have built: up to
\* MaxQueued nodes, sorted, with priorities from the floor 0.1 up to 1.5.
MaxQueued == 2

QueuedPriorities ==
    {Scale \div 10, (Scale \div 10) + 20, Scale \div 2, Scale, Scale + Scale \div 2}

QueuedNodes ==
    {FrontierItem(p, Collection, c, 1, c) : p \in QueuedPriorities, c \in Ids}
        \cup {FrontierItem(Scale, Identifier, c, 0, "") : c \in Ids}

SortedQueues ==
    {f \in SeqsUpTo(QueuedNodes, MaxQueued) :
        \A i \in 1..Len(f) - 1 : f[i].priority >= f[i + 1].priority}

\* coll_stats: no entry, an entry without items, or one with items, per collection.
StatsRecords == {[items |-> 0, isos |-> 0], [items |-> 2, isos |-> 0],
                 [items |-> 2, isos |-> 1]}

StatsChoices == UNION {[D -> StatsRecords] : D \in SUBSET Ids}

\* Collection A was visited from a seed and its traversal has ended; B was visited
\* before it or not at all; only visited collections have items or a priority
\* above 1.0.
RwInit ==
    /\ args = [seeds |-> <<"A">>, max_visits |-> MaxVisitsCap, max_depth |-> 1,
               rows |-> 2, stop_on_dry_spell |-> 2]
    /\ pc = "Finish"
    /\ seed_i = 2
    /\ frontier \in SortedQueues
    /\ seen_collections \in {{"A"}, Ids}
    /\ \A i \in 1..Len(frontier) :
         (frontier[i].kind = Collection /\ frontier[i].priority > Scale)
            => frontier[i].value \in seen_collections
    /\ seen_identifiers = {}
    /\ seen_files = {}
    /\ coll_stats \in StatsChoices
    /\ \A c \in DOMAIN coll_stats : coll_stats[c].items > 0 => c \in seen_collections
    /\ total_iso = 0
    /\ visits = Cardinality(seen_collections)
    /\ dry_streak \in {0, 1}
    /\ node = FrontierItem(Scale, Collection, "A", 0, "A")
    /\ page = 1
    /\ total_pages = 1
    /\ num_found = 0
    /\ doc_i = 0
    /\ identifier = ""
    /\ new_isos_from_coll \in {0, 1}
    /\ pops = Cardinality(seen_collections)
    /\ coll_visits = [i \in Ids |-> IF i \in seen_collections THEN 1 ELSE 0]
    /\ item_visits = [i \in Ids |-> 0]
    /\ written = [k \in AllKeys |-> 0]
    /\ meta_requests = [i \in Ids |-> 0]
    /\ search_requests = [i \in Ids |-> IF i \in seen_collections THEN 1 ELSE 0]
    /\ search_pages = <<1>>
    /\ page_failed = FALSE
    /\ spacing = "spaced"
    /\ running = TRUE
    /\ hb_pc = "Ready"
    /\ hb_last = "none"
    /\ HttpIdle
    /\ DlIdle

RwNext == Finish

RwSpec == RwInit /\ [][RwNext]_vars

\* ------------------------------------------------------------------ claims

\* C1: in one run no id is visited as a collection more than once, and no id is
\* processed as an item (inline or as an Identifier node) more than once.
C1_VisitedOnce ==
    \A i \in Ids : coll_visits[i] <= 1 /\ item_visits[i] <= 1

\* Both ids were visited as collections and processed as items, with a node that
\* was queued again and dropped at its pop.
C1_Witness ==
    /\ \A i \in Ids : coll_visits[i] = 1
    /\ \E i \in Ids : item_visits[i] = 1
    /\ pops > visits

\* C2: no (identifier, file name) pair is written to the output more than once;
\* a written key is in seen_files.
C2_WrittenOnce ==
    \A k \in AllKeys : written[k] <= 1 /\ (written[k] = 1 => k \in seen_files)

\* A key written once although its item record was offered a second listing of
\* the same file: both image files of both items are out.
C2_Witness ==
    /\ \A k \in AllKeys : Suffix4(LowerName(k[2])) \in {".iso", ".img"} => written[k] = 1
    /\ total_iso = 4

\* C3: the crawl loop always terminates, also when collections reference each
\* other in a cycle: every run reaches a state in which main has left the loop.
C3_Terminates == <>(pc \in Terminal)

\* The run started from the one seed A as a collection, found B through an item
\* of A, visited both once, and ended.
C3_Witness ==
    /\ pc \in {"Exhausted", "LimitReached", "DryStreakStopped"}
    /\ args.seeds = <<"A">>
    /\ coll_visits["A"] = 1
    /\ coll_visits["B"] = 1

C5_PopMax ==
    [][/\ pop_frontier(<<>>).node = NoNode
       /\ (pc = "Looping" /\ pc' \notin {"Exhausted", "LimitReached"}) =>
            /\ frontier # <<>>
            /\ node' \in Range(frontier)
            /\ \A i \in 1..Len(frontier) : frontier[i].priority <= node'.priority
            /\ Len(frontier') = Len(frontier) - 1
            /\ \A n \in Range(frontier) :
                 Occurrences(frontier', n) =
                     Occurrences(frontier, n) - (IF n = node' THEN 1 ELSE 0)]_vars

\* A discovered node, pushed with 0.5 and re-scored to more than 1.0 by a
\* reprioritization, was popped before a node that decayed below 1.0.
C5_Witness ==
    /\ pc = "Looping"
    /\ node.priority > Scale
    /\ frontier # <<>>
    /\ node.depth = 1
    /\ \E i \in 1..Len(frontier) : frontier[i].priority < Scale

\* C6 as stated: no failure while a node is processed leaves the loop, except a
\* failure writing the results: main never leaves the loop by another exception.
C6_NoFailureEscapes == pc # "Crashed"

\* C7: a node is in its visited set before the first request for it is issued,
\* and no id is requested twice inside the loop, whatever its fetch returned.
C7_MarkedBeforeFetch ==
    /\ \A i \in Ids :
         /\ meta_requests[i] <= 1
         /\ meta_requests[i] = 1 => i \in seen_identifiers
         /\ search_requests[i] <= 1
         /\ search_requests[i] = 1 => i \in seen_collections
    /\ pc = "ItemFetch" =>
         identifier \in seen_identifiers /\ meta_requests[identifier] = 0
    /\ pc = "IdentFetch" =>
         node.value \in seen_identifiers /\ meta_requests[node.value] = 0
    /\ pc = "SearchFirst" =>
         node.value \in seen_collections /\ search_requests[node.value] = 0

\* An item fetched once inline that yielded nothing is met again as an
\* Identifier node and dropped without a second request.
C7_Witness ==
    /\ pc = "Looping"
    /\ node.kind = Identifier
    /\ pops = 2
    /\ visits = 1
    /\ meta_requests[node.value] = 1
    /\ seen_files = {}

\* The yield ratio of the claim: 0.5 without statistics or with no item seen,
\* else filesFound / itemsSeen.
ExpectedRatio(stats, c) ==
    IF c \notin DOMAIN stats \/ stats[c].items = 0
    THEN Scale \div 2
    ELSE (stats[c].isos * Scale) \div stats[c].items

\* C8: every collection pushed by discovery is scored with the yield ratio, and
\* the reprioritization scores a queued collection that has items with 1 + ratio.
C8_Ratio ==
    [][/\ pc \in {"ItemFetch", "IdentFetch"} =>
            \A i \in 1..Len(frontier') :
              Occurrences(frontier', frontier'[i]) > Occurrences(frontier, frontier'[i])
                => frontier'[i].priority = ExpectedRatio(coll_stats, frontier'[i].value)
       /\ pc = "Finish" =>
            \A i \in 1..Len(frontier') :
              (frontier'[i].kind = Collection
                 /\ frontier'[i].stats_key \in DOMAIN coll_stats'
                 /\ coll_stats'[frontier'[i].stats_key].items > 0)
                => frontier'[i].priority =
                     Scale + ExpectedRatio(coll_stats', frontier'[i].stats_key)]_vars

\* A queued collection re-scored with a ratio of 2 (one item, two image files)
\* next to a discovered collection that was pushed with 0.5 and decayed once.
C8_Witness ==
    /\ pc = "Looping"
    /\ \E i \in 1..Len(frontier) : frontier[i].priority = 3 * Scale
    /\ \E i \in 1..Len(frontier) : frontier[i].priority = ((Scale \div 2) * 19) \div 20

\* C9: a visit of an Identifier node changes no collection statistics; it writes
\* one record per image file not yet emitted and pushes only unvisited parent
\* collections, each with priority 0.5 and the depth of the node plus one.
C9_IdentifierFrame ==
    [][(pc = "IdentFetch" \/ pc' = "IdentFetch") =>
         /\ coll_stats' = coll_stats
         /\ pc' \in {"Looping", "DryStreakStopped"} =>
              \A k \in AllKeys :
                written'[k] - written[k] = (IF k \in seen_files' \ seen_files THEN 1 ELSE 0)
         /\ \A i \in 1..Len(frontier') :
              Occurrences(frontier', frontier'[i]) > Occurrences(frontier, frontier'[i])
                => frontier'[i] = FrontierItem(Scale \div 2, Collection, frontier'[i].value,
                                               node.depth + 1, frontier'[i].value)
                   /\ frontier'[i].value \notin seen_collections]_vars

\* The seed item A with two image files in collection B: two records, B queued
\* with priority 0.5, no statistics entry.
C9_Witness ==
    /\ pc = "Looping"
    /\ args.seeds = <<"A">>
    /\ node.kind = Identifier
    /\ visits = 1
    /\ total_iso = 2
    /\ written[<<"A", "f.iso">>] = 1
    /\ written[<<"A", "G.IMG">>] = 1
    /\ frontier = <<FrontierItem(Scale \div 2, Collection, "B", 1, "B")>>
    /\ coll_stats = NoStats

\* The least k with k * r >= n.
CeilDiv(n, r) == CHOOSE k \in 0..n : k * r >= n /\ (k = 0 \/ (k - 1) * r < n)

\* C10: a collection whose first page reports numFound = N and whose page
\* fetches all succeed is searched exactly once per page 1..max(1, ceil(N/rows)),
\* in that order; 1200 results at 500 rows are 3 pages.
C10_Pages ==
    /\ (pc = "Finish" /\ ~page_failed) =>
         search_pages = [i \in 1..Max(1, CeilDiv(num_found, args.rows)) |-> i]
    /\ TotalPages(1200, 500) = 3
    /\ \A n \in 0..12 : \A r \in 1..4 : TotalPages(n, r) = Max(1, CeilDiv(n, r))

\* Five results at two rows per page: pages 1, 2 and 3 were fetched, no other.
C10_Witness ==
    /\ pc = "Finish"
    /\ ~page_failed
    /\ num_found = 5
    /\ args.rows = 2
    /\ search_pages = <<1, 2, 3>>

\* The answers of a call that met k statuses of the forcelist and then a 200.
RetriedThenOk(s) ==
    /\ s # <<>>
    /\ Last(s) = "200"
    /\ \A i \in 1..(Len(s) - 1) : s[i] \in Forcelist

\* C11: a GET that meets k <= retries retryable statuses and then a 200 returns
\* that 200 after exactly k retries, and last_http then shows status 200; the
\* call never stops on a retryable status before the budget of retries is spent.
C11_RetriesThenReturns ==
    /\ (http_pc \in {"Returned", "Raised"} /\ Retryable(Last(answers)))
         => Len(answers) = retries + 1
    /\ (http_pc \in {"Caller", "Done"} /\ RetriedThenOk(answers)
          /\ last_http.shape # "other")
         => /\ outcome = Response("200")
            /\ retries - left = Len(answers) - 1
            /\ Len(answers) - 1 <= retries
            /\ status = "dict" =>
                 last_http = LastHttp("dict", "200", None, TRUE)

\* Three retries, the server answers 503, 503, 200: one response, two retries,
\* last_http shows 200.
C11_Witness ==
    /\ http_pc = "Done"
    /\ retries = 3
    /\ answers = <<"503", "503", "200">>
    /\ outcome = Response("200")
    /\ left = 1
    /\ status = "dict"
    /\ last_http.status = "200"

\* Every attempt of the call ended in a retryable status or a failed connection.
AllAttemptsFailed(s) == s # <<>> /\ \A i \in 1..Len(s) : Retryable(s[i])

\* C12 as stated: when every attempt ends in a retryable status or a connection
\* failure, the call does not return a response but fails.
C12_FailsWithError ==
    (http_pc \in {"Caller", "Done"} /\ AllAttemptsFailed(answers))
        => outcome.kind = "raise"

\* C12 as amended: such a call used the whole budget; it raises when the last
\* attempt was a failed connection and returns the last response, with its
\* retryable status, when the last attempt ended in a status; fetch_metadata
\* then returns None and adv_search_collection raises.
C12_FailsOrReturnsLastStatus ==
    (http_pc \in {"Caller", "Done"} /\ AllAttemptsFailed(answers)
       /\ last_http.shape # "other")
        => /\ Len(answers) = retries + 1
           /\ outcome = IF Last(answers) = ConnectionError
                        THEN Raise(ConnectionError)
                        ELSE Response(Last(answers))
           /\ http_pc = "Done" =>
                IF caller = "fetch_metadata"
                THEN result = Value(None)
                ELSE result.kind = "raise"

\* One retry, a failed connection and then a 503: the 503 response is returned
\* to adv_search_collection, which raises RuntimeError.
C12_Witness ==
    /\ http_pc = "Done"
    /\ retries = 1
    /\ answers = <<ConnectionError, "503">>
    /\ outcome = Response("503")
    /\ caller = "adv_search_collection"
    /\ result = Raise("RuntimeError")

\* C13 as stated: recording last_http never raises: whatever the status object
\* is, wrapped returns the response or raises the error of the request.
C13_RecordingNeverRaises ==
    /\ outcome # Raise("AttributeError")
    /\ (http_pc \in {"Caller", "Done"}) =>
         outcome \in {Response(Last(answers)), Raise(ConnectionError)}

\* C18: fetch_metadata never raises; it returns the parsed record exactly for a
\* 200 response whose body parses, and None for every other outcome.
C18_FetchMetadataNeverRaises ==
    (http_pc = "Done" /\ caller = "fetch_metadata")
        => /\ result.kind = "value"
           /\ result.v \in {None, "record"}
           /\ result.v = "record" <=> (outcome = Response("200") /\ parsable)

\* The request raised after its retries were spent on failed connections, and
\* fetch_metadata returned None.
C18_Witness ==
    /\ http_pc = "Done"
    /\ caller = "fetch_metadata"
    /\ retries = 1
    /\ answers = <<ConnectionError, ConnectionError>>
    /\ outcome = Raise(ConnectionError)
    /\ result = Value(None)

\* C14: no tick ends the worker by an exception, whatever the status holds; the
\* worker exits only at a tick that finds running false.
C14_HeartbeatSurvives ==
    /\ hb_pc \in {"NotStarted", "Ready", "Reporting", "Exited"}
    /\ hb_pc = "Exited" => ~running

\* After a tick whose exception was swallowed the worker went on, and exited
\* once it observed running false.
C14_Witness ==
    /\ hb_last = "swallowed"
    /\ hb_pc = "Exited"
    /\ ~running

\* main has left the loop and has no statement left that stops the heartbeat.
MainEnded == pc \in NormalExits \cup FatalExits /\ ~ENABLED StopHeartbeat

\* C15 as stated: on every exit from the loop, by a terminal condition or by a
\* fatal error, running is set to false.
C15_RunningClearedOnExit == MainEnded => ~running

\* C16: a step of the heartbeat worker changes neither the status nor any
\* variable of main, and every step of the two threads together is a step of
\* main alone or leaves main's variables as they are: the crawl with the
\* heartbeat interleaved is the crawl without it.
C16_HeartbeatReadsOnly ==
    [][/\ (hb_pc # "NotStarted" /\ <<hb_pc, hb_last>>' # <<hb_pc, hb_last>>)
            => UNCHANGED <<main_vars, dl_vars, spacing, running, http_vars>>
       /\ Next \/ UNCHANGED <<main_vars, dl_vars, spacing, running, http_vars>>]_vars

\* The worker ticked while A was visited, saw the flag cleared and exited; the
\* crawl wrote its two records and ended with an empty frontier.
C16_Witness ==
    /\ pc = "Exhausted"
    /\ hb_pc = "Exited"
    /\ hb_last = "logged"
    /\ coll_visits["A"] = 1
    /\ total_iso = 2

\* The number of entries of s that equal x.
Count(s, x) == Cardinality({i \in 1..Len(s) : s[i] = x})

C19_DelayBetweenRequests == spacing # "unspaced"

\* C20 as stated: an invalid option is rejected before the loop starts, so with
\* an invalid page size or a negative visit cap no node is ever visited.
C20_InvalidOptionsRejected ==
    (args.rows <= 0 \/ args.max_visits < 0) => (visits = 0 /\ pc # "OptionCrashed")


\* C21: with --resume (and no --dry-run), an item whose destination file exists
\* with N > 0 bytes is resumed: the step main takes for it sends a GET with the
\* header Range: bytes=N- and opens the file for appending.
C21_ResumesExistingFile ==
    [][(/\ dl_pc = "Item"
        /\ idx <= Len(items)
        /\ ~MissingFields(items[idx])
        /\ dl_args.resume /\ ~dl_args.dry_run
        /\ dest_files[items[idx].file_name] > 0)
       => (/\ dl_pc' = "Get"
           /\ headers' = [unit |-> "bytes", first |-> dest_files[items[idx].file_name]]
           /\ mode' = "ab")]_vars

\* C22: the dry-streak counter counts the most recent consecutive visited
\* collections without a new file: the step that ends the visit of a collection
\* (back to the loop, or the dry-streak stop) adds one to it when the visit
\* emitted no new file and resets it to 0 otherwise, and no other step changes it.
C22_DryStreakCounts ==
    [][IF pc \in {"SearchFirst", "Finish"} /\ pc' \in {"Looping", "DryStreakStopped"}
       THEN dry_streak' = IF new_isos_from_coll = 0 THEN dry_streak + 1 ELSE 0
       ELSE dry_streak' = dry_streak]_vars

\* C23: the visit count never exceeds max-visits (no visit at all when it is not
\* positive) and, the threshold being at least 1, the dry-streak counter never
\* exceeds the threshold; a node is popped only while the visit count is below
\* max-visits and the dry-streak counter is below the threshold.
C23_Limits ==
    /\ [](/\ visits <= Max(args.max_visits, 0)
          /\ args.stop_on_dry_spell >= 1 => dry_streak <= args.stop_on_dry_spell)
    /\ [][pops' # pops
          => (/\ visits < args.max_visits
              /\ args.stop_on_dry_spell >= 1 => dry_streak < args.stop_on_dry_spell)]_vars

\* A run stopped on a dry streak equal to the threshold, below max-visits and
\* with nodes still queued: they are not popped.
C23_Witness ==
    /\ pc = "DryStreakStopped"
    /\ dry_streak = args.stop_on_dry_spell
    /\ frontier # <<>>
    /\ visits < args.max_visits

\* C24: the step that ends the visit of a collection, after its last page or
\* after a failed page fetch, adds the new-file count to the collection's
\* statistics, updates the dry-streak counter, re-weighs and re-sorts the queued
\* nodes and tests the dry-streak stop; no node is popped in between.
C24_AfterTraversal ==
    [][(/\ node.kind = Collection
        /\ pc \in {"SearchFirst", "SearchPage", "Docs", "ItemFetch", "Finish"}
        /\ pc' \in {"Looping", "DryStreakStopped"})
       => (/\ dry_streak' = IF new_isos_from_coll = 0 THEN dry_streak + 1 ELSE 0
           /\ HasStats(coll_stats', node.value)
           /\ coll_stats'[node.value].isos =
                 (IF HasStats(coll_stats, node.value) THEN coll_stats[node.value].isos
                  ELSE 0) + new_isos_from_coll
           /\ Len(frontier') = Len(frontier)
           /\ \A i \in 1..Len(frontier) - 1 :
                 frontier'[i].priority >= frontier'[i + 1].priority
           /\ pc' = "DryStreakStopped" <=> dry_streak' >= args.stop_on_dry_spell
           /\ pops' = pops)]_vars

\* The priority the re-weighing gives a queued node: 1.0 + filesFound/itemsSeen of
\* its stats key when that collection has items, else max(0.95 * old, 0.1); an
\* Identifier node keeps its priority.
ExpectedPriority(fi, stats) ==
    IF fi.kind # Collection THEN fi.priority
    ELSE IF fi.stats_key \in DOMAIN stats /\ stats[fi.stats_key].items > 0
         THEN Scale + (stats[fi.stats_key].isos * Scale) \div stats[fi.stats_key].items
         ELSE IF (fi.priority * 95) \div 100 > Scale \div 10
              THEN (fi.priority * 95) \div 100 ELSE Scale \div 10

\* C25: the re-weighing after a collection's visit maps the queued nodes one to
\* one onto the nodes queued before: each keeps its kind, value, depth and stats
\* key and gets the priority ExpectedPriority, from the statistics just updated;
\* no node is added or removed, and every priority stays at least 0.1.
C25_Reprioritization ==
    /\ [][pc = "Finish" /\ pc' # "Finish"
          => \E p \in Orderings(1..Len(frontier)) :
               /\ Len(frontier') = Len(frontier)
               /\ \A i \in 1..Len(frontier) :
                    frontier'[p[i]] =
                       [frontier[i] EXCEPT !.priority =
                                        ExpectedPriority(frontier[i], coll_stats')]]_vars
    /\ [](\A i \in 1..Len(frontier) : frontier[i].priority >= Scale \div 10)

\* After the re-weighing the queue holds a collection with items at 1.5 and a
\* collection without statistics that the floor holds at 0.1.
C25_Witness ==
    /\ pc \in {"Looping", "DryStreakStopped"}
    /\ Len(frontier) = 2
    /\ frontier[1].kind = Collection /\ frontier[1].priority = Scale + Scale \div 2
    /\ frontier[2].kind = Collection /\ frontier[2].priority = Scale \div 10
    /\ ~HasStats(coll_stats, frontier[2].stats_key)

\* What a queued node is, whatever its priority at the moment.
NodeId(fi) == <<fi.kind, fi.value, fi.depth, fi.stats_key>>

QueuedCount(f, id) == Cardinality({i \in 1..Len(f) : NodeId(f[i]) = id})

\* C26: a step that pops removes exactly the popped node from the frontier, and
\* every other step keeps every queued node queued (re-weighed or not); a run that
\* ends Exhausted has an empty frontier, so every node pushed was popped once.
C26_PoppedOnce ==
    /\ [][IF pops' # pops
          THEN \E k \in 1..Len(frontier) :
                 /\ node' = frontier[k]
                 /\ frontier' = SubSeq(frontier, 1, k - 1)
                                   \o SubSeq(frontier, k + 1, Len(frontier))
          ELSE \A i \in 1..Len(frontier) :
                 QueuedCount(frontier', NodeId(frontier[i]))
                     >= QueuedCount(frontier, NodeId(frontier[i]))]_vars
    /\ [](pc = "Exhausted" => frontier = <<>>)

\* The run ended Exhausted after popping, as its last node, a collection whose
\* priority had decayed below the 0.5 it was pushed with.
C26_Witness ==
    /\ pc = "Exhausted"
    /\ node.kind = Collection
    /\ node.priority < Scale \div 2
    /\ pops >= 3

CollQueued(f, c) ==
    Cardinality({i \in 1..Len(f) : f[i].kind = Collection /\ f[i].value = c})

\* C27: the step at which a search page of the collection being visited fails
\* (the first page, or a later one) leaves the visited items, the statistics, the
\* emitted files and the frontier as they are and the collection visited, and the
\* run goes on (to the loop, or to the end-of-visit steps); after a failed later
\* page no further page is requested; a collection is searched from page 1 at
\* most once, and no node is pushed for a collection that is visited.
C27_PageFailure ==
    /\ [][((pc = "SearchFirst" /\ pc' = "Looping") \/ (~page_failed /\ page_failed'))
          => (/\ UNCHANGED <<frontier, seen_collections, seen_identifiers, seen_files,
                             coll_stats, written, total_iso, item_visits, visits>>
              /\ node.value \in seen_collections
              /\ pc' \in {"Looping", "Finish"})]_vars
    /\ [](page_failed => pc = "Finish")
    /\ [](\A c \in Ids : search_requests[c] <= 1)
    /\ [][\A c \in seen_collections :
             CollQueued(frontier', c) <= CollQueued(frontier, c)]_vars

\* Page 2 of 3 failed after an item of page 1 had a file emitted: page 3 is not
\* requested.
C27_Witness ==
    /\ pc = "Finish"
    /\ page_failed
    /\ total_pages = 3
    /\ search_pages = <<1, 2>>
    /\ new_isos_from_coll > 0

\* The parent collections a record with the collection field col refers to.
Parents(col) == related_collections_from_meta([files |-> <<>>, collection |-> col])

\* C28: whatever record the item being processed has, the pushes made for it add
\* one node for each parent collection that is not in seen_collections and none
\* for any other collection; and every node that a step after seeding adds to the
\* frontier is added while an item is processed, once, for a collection that is
\* not in seen_collections, with kind Collection, the collection as stats key and
\* the depth of the node being processed plus 1.
C28_PushUnvisitedParents ==
    /\ [](pc \in {"ItemFetch", "IdentFetch"} =>
            \A col \in CollectionFields : \A order \in Orderings(Parents(col)) :
               LET g == PushRelated(frontier, order, seen_collections, coll_stats,
                                    node.depth + 1)
               IN \A c \in Ids :
                    CollQueued(g, c) =
                       CollQueued(frontier, c)
                          + (IF c \in Parents(col) /\ c \notin seen_collections
                             THEN 1 ELSE 0))
    /\ [][pc # "Seeding" =>
            \A i \in 1..Len(frontier') :
               LET n == frontier'[i]
               IN QueuedCount(frontier', NodeId(n)) > QueuedCount(frontier, NodeId(n))
                  => (/\ pc \in {"ItemFetch", "IdentFetch"}
                      /\ QueuedCount(frontier', NodeId(n))
                            = QueuedCount(frontier, NodeId(n)) + 1
                      /\ n.kind = Collection
                      /\ n.stats_key = n.value
                      /\ n.depth = node.depth + 1
                      /\ n.value \notin seen_collections)]_vars

\* While collection A is traversed from a seed, an item of it has had its parent
\* B pushed at depth 1 with the 0.5 baseline, and no node for A itself.
C28_Witness ==
    /\ pc = "Docs"
    /\ node = FrontierItem(Scale, Collection, "A", 0, "A")
    /\ frontier = <<FrontierItem(Scale \div 2, Collection, "B", 1, "B")>>
    /\ "B" \notin seen_collections
    /\ item_visits["A"] = 1

\* C29: a collection is marked visited, counted and searched only from a node
\* whose depth is at most max-depth: the node of a collection's visit is never
\* deeper, and every step that counts a collection visit or sends a search request
\* is taken for such a node.
C29_DepthLimit ==
    /\ [](pc \in {"SearchFirst", "SearchPage", "Docs", "ItemFetch", "Finish"}
             => node.kind = Collection /\ node.depth <= args.max_depth)
    /\ [][(\/ coll_visits' # coll_visits
           \/ seen_collections' # seen_collections
           \/ search_requests' # search_requests
           \/ (search_pages' # search_pages /\ search_pages' # <<>>))
          => (/\ node'.kind = Collection
              /\ node'.depth <= args.max_depth
              /\ node'.value \in seen_collections')]_vars

\* A collection that was never visited has been popped from a node deeper than
\* max-depth and dropped: no visit, no search request.
C29_Witness ==
    /\ pc = "Looping"
    /\ node.kind = Collection
    /\ node.depth > args.max_depth
    /\ node.value \notin seen_collections
    /\ coll_visits[node.value] = 0
    /\ search_requests[node.value] = 0

\* The order-preserving placements of m queued nodes among n.
Embeddings(m, n) == {p \in [1..m -> 1..n] : \A i, j \in 1..m : i < j => p[i] < p[j]}

\* C30: nodes of equal priority stay in insertion order. A pop takes the head of
\* the frontier. The re-sort after the re-weighing keeps two nodes whose new
\* priorities are equal in the order they had. Any other step keeps the queued
\* nodes in their order and places each node it pushes behind every queued node
\* of the same priority.
C30_TiesKeepOrder ==
    [][IF pops' # pops
       THEN frontier # <<>> /\ node' = frontier[1] /\ frontier' = Tail(frontier)
       ELSE IF pc = "Finish"
       THEN \E p \in Orderings(1..Len(frontier)) :
              /\ Len(frontier') = Len(frontier)
              /\ \A i \in 1..Len(frontier) :
                   frontier'[p[i]] =
                      [frontier[i] EXCEPT !.priority =
                                       ExpectedPriority(frontier[i], coll_stats')]
              /\ \A i, j \in 1..Len(frontier) :
                   (i < j /\ frontier'[p[i]].priority = frontier'[p[j]].priority)
                      => p[i] < p[j]
       ELSE /\ Len(frontier') >= Len(frontier)
            /\ \E p \in Embeddings(Len(frontier), Len(frontier')) :
                 /\ \A i \in 1..Len(frontier) : frontier'[p[i]] = frontier[i]
                 /\ \A j \in 1..Len(frontier') :
                      (\A i \in 1..Len(frontier) : p[i] # j)
                         => \A i \in 1..Len(frontier) :
                               frontier[i].priority = frontier'[j].priority => p[i] < j]_vars

\* Seeds A and B were pushed with the same priority, A first: A was popped first
\* and B is the head of the frontier.
C30_Witness ==
    /\ args.seeds = <<"A", "B">>
    /\ pops = 1
    /\ node.value = "A" /\ node.priority = Scale /\ node.depth = 0
    /\ frontier # <<>>
    /\ frontier[1].value = "B" /\ frontier[1].priority = Scale /\ frontier[1].depth = 0

\* The answers after which the client may send again.
Transient == {"429", "500", "502", "503", "504", ConnectionError}

\* C31: a call of the client makes at most retries + 1 attempts, every attempt
\* but the last ended in a status of {429, 500, 502, 503, 504} or a failed
\* connection, and a call whose first answer is any other status has made one
\* attempt when it goes back to the caller.
C31_AttemptsBounded ==
    /\ Len(answers) <= retries + 1
    /\ \A i \in 1..(Len(answers) - 1) : answers[i] \in Transient
    /\ (http_pc \in {"Returned", "Caller", "Done"} /\ answers # <<>>
          /\ answers[1] \notin Transient)
         => (Len(answers) = 1 /\ left = retries)

\* With three retries the call made four attempts, the last one after a failed
\* connection; and it is over.
C31_Witness ==
    /\ http_pc = "Done"
    /\ retries = 3
    /\ Len(answers) = 4
    /\ answers[3] = ConnectionError
    /\ answers[1] = "429"

\* The queued nodes of one identity that have priority p.
QueuedAt(f, id, p) ==
    Cardinality({i \in 1..Len(f) : NodeId(f[i]) = id /\ f[i].priority = p})

\* C32: only a collection in seen_collections has a statistics entry with
\* items > 0, and every node that a step after seeding adds to the frontier is
\* added with priority 0.5.
C32_DiscoveredAtBaseline ==
    /\ [](\A c \in DOMAIN coll_stats :
             coll_stats[c].items > 0 => c \in seen_collections)
    /\ [][pc # "Seeding" =>
            \A i \in 1..Len(frontier') :
               LET id == NodeId(frontier'[i])
                   added == QueuedCount(frontier', id) - QueuedCount(frontier, id)
               IN added > 0
                  => QueuedAt(frontier', id, Scale \div 2)
                        = QueuedAt(frontier, id, Scale \div 2) + added]_vars

\* Collection A has two items and a file in its statistics; the second item's
\* parent B was pushed, at 0.5.
C32_Witness ==
    /\ pc = "Docs"
    /\ node.value = "A" /\ node.kind = Collection
    /\ HasStats(coll_stats, "A") /\ coll_stats["A"].items = 2
    /\ new_isos_from_coll > 0
    /\ frontier = <<FrontierItem(Scale \div 2, Collection, "B", node.depth + 1, "B")>>

\* max(0.95 * p, 0.1)
Decayed(p) == Max((p * 95) \div 100, Scale \div 10)

\* The queued nodes of one identity whose priority decays to q.
DecayingTo(f, id, q) ==
    Cardinality({i \in 1..Len(f) : NodeId(f[i]) = id /\ Decayed(f[i].priority) = q})

\* C33: the priority of a queued node of a collection that is not visited never
\* grows. The re-weighing replaces it by max(0.95 * p, 0.1), which is not above p,
\* and leaves a priority of 1.0 or more only on nodes of visited collections; in
\* every other step such a node keeps its priority, and a node that enters has 0.5.
C33_UnvisitedOnlyDecay ==
    [][IF pc = "Finish"
       THEN /\ \A i \in 1..Len(frontier) :
                 LET n == frontier[i]
                 IN (n.kind = Collection /\ n.value \notin seen_collections)
                    => /\ Decayed(n.priority) <= n.priority
                       /\ QueuedAt(frontier', NodeId(n), Decayed(n.priority))
                             = DecayingTo(frontier, NodeId(n), Decayed(n.priority))
            /\ \A j \in 1..Len(frontier') :
                 (frontier'[j].kind = Collection /\ frontier'[j].priority >= Scale)
                    => frontier'[j].value \in seen_collections
       ELSE \A j \in 1..Len(frontier') :
              LET n == frontier'[j]
              IN (n.kind = Collection /\ n.value \notin seen_collections
                    /\ pc # "Seeding" /\ n.priority # Scale \div 2)
                 => QueuedAt(frontier', NodeId(n), n.priority)
                       <= QueuedAt(frontier, NodeId(n), n.priority)]_vars

\* After a re-weighing the queue holds a second node of the visited collection A,
\* raised to 1.0 or more, and a node of the unvisited B, decayed from 0.5 to 0.475.
C33_Witness ==
    /\ pc = "Looping"
    /\ "A" \in seen_collections /\ "B" \notin seen_collections
    /\ \E i, j \in 1..Len(frontier) :
         /\ frontier[i].kind = Collection /\ frontier[i].value = "A"
         /\ frontier[i].priority >= Scale
         /\ frontier[j].kind = Collection /\ frontier[j].value = "B"
         /\ frontier[j].priority = Decayed(Scale \div 2)
    /\ HasStats(coll_stats, "A") /\ coll_stats["A"].items > 0

\* C34: the visit count is 0 with no collection visited before the loop, and
\* every step adds to it the number of collections that enter seen_collections,
\* plus one when the step begins the processing of an Identifier node; the step
\* that begins an inline item marks the item and leaves the visit count alone.
C34_VisitCount ==
    /\ [](pc = "Seeding" => (visits = 0 /\ seen_collections = {}))
    /\ [][/\ visits' = visits
                       + Cardinality(seen_collections' \ seen_collections)
                       + (IF pc = "Looping" /\ pc' = "IdentFetch" THEN 1 ELSE 0)
          /\ seen_collections \subseteq seen_collections'
          /\ (pc = "Docs" /\ pc' = "ItemFetch")
                => (/\ identifier' \in seen_identifiers' \ seen_identifiers
                    /\ visits' = visits)]_vars

\* With max-visits 1 the run visited one collection and requested the records of
\* two items.
C34_Witness ==
    /\ args.max_visits = 1
    /\ visits = 1
    /\ seen_collections = {"A"}
    /\ meta_requests["A"] + meta_requests["B"] = 2
    /\ pc = "LimitReached"

\* C35: the step that pops a node of an unvisited collection deeper than max-depth
\* removes that node from the frontier and changes nothing else of the crawl: the
\* collection stays outside seen_collections, and the visit count, the
\* statistics, the dry streak and the other queued nodes are as before.
C35_DepthSkipFrame ==
    [][(/\ pc = "Looping"
        /\ pops' # pops
        /\ node'.kind = Collection
        /\ node'.depth > args.max_depth
        /\ node'.value \notin seen_collections)
       => (/\ frontier # <<>> /\ node' = Head(frontier) /\ frontier' = Tail(frontier)
           /\ pc' = "Looping"
           /\ node'.value \notin seen_collections'
           /\ UNCHANGED <<seen_collections, seen_identifiers, seen_files, coll_stats,
                          total_iso, visits, dry_streak, coll_visits, item_visits,
                          written, meta_requests, search_requests>>)]_vars

\* A node of an unvisited collection at depth 2 was popped and dropped, the only
\* pop of the run that was no visit, below max-visits: the collection is still
\* unvisited.
C35_Witness ==
    /\ pc = "Looping"
    /\ node.kind = Collection /\ node.depth > args.max_depth
    /\ node.value \notin seen_collections
    /\ visits < args.max_visits
    /\ pops = visits + 1

====
